---- MODULE Spec2Model ----
(***************************************************************************)
(* Model of the NPM plugin of `auto` (src/src/plugins/npm/index.ts).       *)
(*                                                                         *)
(* The host calls one of the plugin's entry points per behaviour:          *)
(*   getPreviousVersion, renderChangelogLine, publish, or the exported     *)
(*   changedPackages function.  `hook` records which one.                  *)
(*                                                                         *)
(* JavaScript strings are modelled as sequences of one-character strings,  *)
(* so that split/join/template strings are computed, not assumed.          *)
(* An optional value (undefined or x) is modelled as <<>> or <<x>>.        *)
(***************************************************************************)
EXTENDS Integers, Sequences, FiniteSets, TLC

VARIABLES
  hook,            \* entry point invoked by the host
  mode,            \* files present: "Workspace" (lerna.json), "Single" (package.json), "None"
  pc,              \* "idle" | "awaiting" | "returned" | "rejected"
  \* ---- getPreviousVersion
  normalize,       \* the prefixRelease argument
  marker,          \* version field of lerna.json
  subPackages,     \* result of getPackages(cwd): sequence of package.json records
  manifest,        \* root package.json {name, version}
  queries,         \* names passed to `npm view <name> version`, in order
  published,       \* <<>> or <<what npm view printed>>
  previousVersion, \* returned value, <<>> before return
  \* ---- renderChangelogLine
  commits,         \* sequence of [hash, packages]
  calls,           \* per commit: "pending" | "ok" | "failed" (the git show of its changedPackages)
  completed,       \* indices of the calls in the order they completed
  writes,          \* per commit: number of assignments to commit.packages
  reads,           \* per commit: number of writes seen when partitionPackages read it, <<>> if not run
  section,         \* <<>> (undefined) or <<lines>>
  error,           \* <<>> or <<index of the call whose rejection rejected the hook>>
  \* ---- publish
  version,         \* the SEMVER argument
  commands,        \* external commands issued, in order
  outcomes,        \* outcome of each issued command: "running" | "ok" | "failed"
  \* ---- changedPackages
  changedFiles,    \* stdout of git show --name-only
  packages         \* <<>> or <<result array>>

vars == << hook, mode, pc, normalize, marker, subPackages, manifest, queries,
           published, previousVersion, commits, calls, completed, writes, reads,
           section, error,
           version, commands, outcomes, changedFiles, packages >>

pvVars == << normalize, marker, subPackages, manifest, queries, published, previousVersion >>
clVars == << commits, calls, completed, writes, reads, section, error >>
pubVars == << version, commands, outcomes >>
mapVars == << changedFiles, packages >>

(***************************************************************************)
(* Bounds                                                                  *)
(***************************************************************************)
MaxPart == 1
MaxPackages == 2
MaxCommits == 3
MaxFiles == 3

(***************************************************************************)
(* Generic helpers                                                         *)
(***************************************************************************)
Range(s) == { s[i] : i \in 1..Len(s) }

\* Array.prototype.join
RECURSIVE Join(_, _)
Join(ss, sep) ==
  IF ss = <<>> THEN <<>>
  ELSE IF Len(ss) = 1 THEN ss[1]
  ELSE ss[1] \o sep \o Join(Tail(ss), sep)

\* String.prototype.split with a one-character separator
RECURSIVE SplitFrom(_, _, _, _, _)
SplitFrom(s, sep, i, cur, acc) ==
  IF i > Len(s) THEN Append(acc, cur)
  ELSE IF s[i] = sep THEN SplitFrom(s, sep, i + 1, <<>>, Append(acc, cur))
  ELSE SplitFrom(s, sep, i + 1, Append(cur, s[i]), acc)

Split(s, sep) == SplitFrom(s, sep, 1, <<>>, <<>>)

\* Set.prototype.add on an insertion-ordered Set
SetAdd(set, x) == IF x \in Range(set) THEN set ELSE Append(set, x)

(***************************************************************************)
(* Semantic versions: [v, major, minor, patch, pre]                        *)
(*   v   - the string carries a leading "v"                                *)
(*   pre - the string carries a prerelease tag ("-alpha")                  *)
(***************************************************************************)
Parts == 0..MaxPart

Versions == [v : BOOLEAN, major : Parts, minor : Parts, patch : Parts, pre : BOOLEAN]

\* versions of the x.0.0 line, used where the full set would only multiply states
MajorVersions == { x \in Versions : x.minor = 0 /\ x.patch = 0 }

Ver(ma, mi, pa) == [v |-> FALSE, major |-> ma, minor |-> mi, patch |-> pa, pre |-> FALSE]

\* semver: compareMain
CompareMain(a, b) ==
  IF a.major # b.major THEN (IF a.major > b.major THEN 1 ELSE -1)
  ELSE IF a.minor # b.minor THEN (IF a.minor > b.minor THEN 1 ELSE -1)
  ELSE IF a.patch # b.patch THEN (IF a.patch > b.patch THEN 1 ELSE -1)
  ELSE 0

\* semver: comparePre (a version without prerelease tag is the greater one)
ComparePre(a, b) ==
  IF a.pre /\ ~b.pre THEN -1
  ELSE IF ~a.pre /\ b.pre THEN 1
  ELSE 0

\* semver: gt(a, b); the leading "v" is dropped by the parser
gt(a, b) ==
  LET m == CompareMain(a, b) IN
    IF m # 0 THEN m > 0 ELSE ComparePre(a, b) > 0

\* the prefixRelease functions a caller may pass
Normalizers == { "identity", "addV", "stripV" }

prefixRelease(f, release) ==
  CASE f = "identity" -> release
    [] f = "addV"     -> [release EXCEPT !.v = TRUE]
    [] f = "stripV"   -> [release EXCEPT !.v = FALSE]

(***************************************************************************)
(* getPreviousVersion                                                      *)
(***************************************************************************)
Digits == << <<"1">>, <<"2">>, <<"3">>, <<"4">>, <<"5">>, <<"6">>, <<"7">>, <<"8">>, <<"9">> >>

PkgName(i) == <<"p", "k", "g">> \o Digits[i]

\* versions lerna.json may hold
MarkerPool == { x \in MajorVersions : ~x.pre }

\* package.json of a sub-package: version optional, private optional
SubVersionPool == { x \in MajorVersions : ~x.v }

PackageJsons(i) ==
  [ name : { <<PkgName(i)>> },
    version : { <<x>> : x \in SubVersionPool },
    private : BOOLEAN ]
  \cup { [ name |-> <<PkgName(i)>>, version |-> <<>>, private |-> FALSE ] }

RECURSIVE PackageLists(_)
PackageLists(n) ==
  IF n = 0 THEN { <<>> }
  ELSE LET shorter == PackageLists(n - 1) IN
         shorter \cup { Append(l, p) : l \in { s \in shorter : Len(s) = n - 1 },
                                       p \in PackageJsons(n) }

\* the initial accumulator of the reduce: { version: '0.0.0' }
Sentinel == [ name |-> <<>>, version |-> << Ver(0, 0, 0) >>, private |-> FALSE ]

\* the reduce callback
PickGreatest(greatest, subPackage) ==
  IF subPackage.version # <<>> /\ ~subPackage.private
    THEN IF gt(greatest.version[1], subPackage.version[1]) THEN greatest ELSE subPackage
    ELSE greatest

RECURSIVE Reduce(_, _)
Reduce(pkgs, acc) ==
  IF pkgs = <<>> THEN acc ELSE Reduce(Tail(pkgs), PickGreatest(acc, Head(pkgs)))

releasedPackage(pkgs) == Reduce(pkgs, Sentinel)

\* `!releasedPackage`: an object is never falsy
IsFalsy(obj) == FALSE

\* greaterRelease after the registry answered
GreaterMutLocalOnTie(packageVersion, publishedVersion) ==
  IF gt(publishedVersion, packageVersion) THEN publishedVersion ELSE packageVersion

greaterRelease(packageVersion, publishedVersion) ==
  IF gt(packageVersion, publishedVersion) THEN packageVersion ELSE publishedVersion

\* the local operand handed to greaterRelease
LocalCandidate ==
  IF mode = "Workspace" THEN prefixRelease(normalize, marker)
  ELSE prefixRelease(normalize, manifest.version)

\* the hook up to its first await on the registry (or its return)
PV_Start ==
  /\ hook = "getPreviousVersion" /\ pc = "idle"
  /\ IF mode = "Workspace"
       THEN LET released == releasedPackage(subPackages) IN
              IF IsFalsy(released)
                THEN /\ previousVersion' = << prefixRelease(normalize, marker) >>
                     /\ pc' = "returned"
                     /\ UNCHANGED queries
                ELSE /\ queries' = Append(queries, released.name)
                     /\ pc' = "awaiting"
                     /\ UNCHANGED previousVersion
     ELSE IF mode = "Single"
       THEN /\ queries' = Append(queries, << manifest.name >>)
            /\ pc' = "awaiting"
            /\ UNCHANGED previousVersion
       ELSE /\ pc' = "returned"
            /\ UNCHANGED << queries, previousVersion >>
  /\ UNCHANGED << hook, mode, normalize, marker, subPackages, manifest, published >>
  /\ UNCHANGED << clVars, pubVars, mapVars >>

\* versions `npm view` may print
RegistryPool == IF mode = "Workspace" THEN MajorVersions ELSE Versions

\* npm view succeeded and printed `stdout`
PV_RegistryOk ==
  /\ hook = "getPreviousVersion" /\ pc = "awaiting"
  /\ \E stdout \in RegistryPool :
       /\ published' = << stdout >>
       /\ previousVersion' =
            << greaterRelease(LocalCandidate, prefixRelease(normalize, stdout)) >>
  /\ pc' = "returned"
  /\ UNCHANGED << hook, mode, normalize, marker, subPackages, manifest, queries >>
  /\ UNCHANGED << clVars, pubVars, mapVars >>

\* npm view failed (package unknown to the registry, network error)
PV_RegistryFail ==
  /\ hook = "getPreviousVersion" /\ pc = "awaiting"
  /\ pc' = "rejected"
  /\ UNCHANGED << hook, mode, pvVars, clVars, pubVars, mapVars >>

(***************************************************************************)
(* changedPackages                                                         *)
(***************************************************************************)
PACKAGES == <<"p", "a", "c", "k", "a", "g", "e", "s">>
SLASH == <<"/">>
NEWLINE == <<"\n">>

\* one iteration of changedFiles.split('\n').forEach
AddPathMutScopeAtThree(pkgs, filePath) ==
  LET parts == Split(filePath, "/") IN
    IF parts[1] # PACKAGES \/ Len(parts) < 3 THEN pkgs
    ELSE SetAdd(pkgs,
                IF Len(parts) >= 3 /\ Len(parts[2]) > 0 /\ parts[2][1] = "@"
                  THEN parts[2] \o SLASH \o parts[3]
                  ELSE parts[2])

AddPath(pkgs, filePath) ==
  LET parts == Split(filePath, "/") IN
    IF parts[1] # PACKAGES \/ Len(parts) < 3 THEN pkgs
    ELSE SetAdd(pkgs,
                IF Len(parts) > 3 /\ Len(parts[2]) > 0 /\ parts[2][1] = "@"
                  THEN parts[2] \o SLASH \o parts[3]
                  ELSE parts[2])

RECURSIVE AddPaths(_, _)
AddPaths(pkgs, lines) ==
  IF lines = <<>> THEN pkgs ELSE AddPaths(AddPath(pkgs, Head(lines)), Tail(lines))

\* changedPackages after git show printed `out`: the array [...packages]
ParseChangedFiles(out) == AddPaths(<<>>, Split(out, "\n"))

\* file paths git may print for a commit
PathPool ==
  { <<>>,                                                      \* empty line
    <<"R">>,                                                   \* R
    <<"s", "r", "c", "/", "f">>,                               \* src/f
    PACKAGES \o <<"/", "a">>,                                  \* packages/a
    PACKAGES \o <<"/", "a", "/", "f">>,                        \* packages/a/f
    PACKAGES \o <<"/", "b", "/", "f">>,                        \* packages/b/f
    PACKAGES \o <<"/", "a", "/", "x", "/", "f">>,              \* packages/a/x/f
    PACKAGES \o <<"/", "@", "s", "/", "f">>,                   \* packages/@s/f
    PACKAGES \o <<"/", "@", "s", "/", "n", "/", "f">>,         \* packages/@s/n/f
    <<"s", "r", "c", "/">> \o PACKAGES \o <<"/", "a", "/", "f">> } \* src/packages/a/f

RECURSIVE PathLists(_)
PathLists(n) ==
  IF n = 0 THEN { <<>> }
  ELSE LET shorter == PathLists(n - 1) IN
         shorter \cup { Append(l, p) : l \in { s \in shorter : Len(s) = n - 1 },
                                       p \in PathPool }

\* changedPackages is called and runs git show for the commit
MAP_Start ==
  /\ hook = "changedPackages" /\ pc = "idle"
  /\ pc' = "awaiting"
  /\ UNCHANGED << hook, mode, mapVars, pvVars, clVars, pubVars >>

\* git show --name-only --pretty= printed the changed files
MAP_GitOk ==
  /\ hook = "changedPackages" /\ pc = "awaiting"
  /\ packages' = << ParseChangedFiles(changedFiles) >>
  /\ pc' = "returned"
  /\ UNCHANGED << hook, mode, changedFiles, pvVars, clVars, pubVars >>

\* git show failed
MAP_GitFail ==
  /\ hook = "changedPackages" /\ pc = "awaiting"
  /\ pc' = "rejected"
  /\ UNCHANGED << hook, mode, mapVars, pvVars, clVars, pubVars >>

(***************************************************************************)
(* renderChangelogLine                                                     *)
(***************************************************************************)
MONOREPO == <<"m", "o", "n", "o", "r", "e", "p", "o">>
\* the backquote character (U+0060), which a TLA+ string cannot hold, as a token
BACKTICK == <<"BACKQUOTE">>

\* the commits of the repository and what git show prints for each
\* (git prints paths in sorted order)
GitShow(sha) ==
  CASE sha = <<"1">> -> Join(<< PACKAGES \o <<"/", "@", "s", "/", "f">>,
                                PACKAGES \o <<"/", "@", "s", "/", "n", "/", "f">> >>, NEWLINE)
    [] sha = <<"2">> -> Join(<< PACKAGES \o <<"/", "@", "s", "/", "n", "/", "f">>,
                                PACKAGES \o <<"/", "@", "s", "/", "z">> >>, NEWLINE)
    [] sha = <<"3">> -> <<"R">>
    [] sha = <<"4">> -> PACKAGES \o <<"/", "a", "/", "f">>
    [] sha = <<"5">> -> Join(<< PACKAGES \o <<"/", "a", "/", "f">>,
                                PACKAGES \o <<"/", "b", "/", "f">> >>, NEWLINE)
    [] sha = <<"6">> -> PACKAGES \o <<"/", "a", "/", "x", "/", "f">>
    [] OTHER         -> <<"s", "r", "c", "/", "f">>

Hashes == { <<"1">>, <<"2">>, <<"3">>, <<"4">>, <<"5">>, <<"6">>, <<"7">> }

\* commit lists handed to the hook: distinct hashes, packages not yet set
RECURSIVE CommitLists(_)
CommitLists(n) ==
  IF n = 0 THEN { <<>> }
  ELSE LET shorter == CommitLists(n - 1) IN
         shorter \cup
           { Append(l, [hash |-> h, packages |-> <<>>]) :
               l \in { s \in shorter : Len(s) = n - 1 },
               h \in Hashes }

DistinctHashes(l) == \A i, j \in 1..Len(l) : i # j => l[i].hash # l[j].hash

\* the lineRender argument
lineRender(commit) == <<"#">> \o commit.hash

\* the bucket key of a commit
PackagesKey(commit) ==
  IF commit.packages # <<>> /\ Len(commit.packages[1]) > 0
    THEN Join([ i \in 1..Len(commit.packages[1]) |->
                  BACKTICK \o commit.packages[1][i] \o BACKTICK ], <<",", " ">>)
    ELSE MONOREPO

\* packageCommits is an insertion-ordered map: a sequence of [key, lines]
HasKey(map, key) == \E i \in 1..Len(map) : map[i].key = key

Lookup(map, key) == map[CHOOSE i \in 1..Len(map) : map[i].key = key].lines

\* packageCommits[packages].push(line)
PushLineMutUnshift(lines, line) == << line >> \o lines

PushLine(lines, line) == Append(lines, line)

\* one iteration of labelCommits.map
AddCommit(map, commit) ==
  LET line == lineRender(commit)
      key == PackagesKey(commit)
      withKey == IF ~HasKey(map, key) THEN Append(map, [key |-> key, lines |-> <<>>])
                 ELSE map
  IN [ i \in 1..Len(withKey) |->
         IF withKey[i].key = key
           THEN [withKey[i] EXCEPT !.lines = PushLine(@, line)]
           ELSE withKey[i] ]

RECURSIVE AddCommits(_, _)
AddCommits(map, labelCommits) ==
  IF labelCommits = <<>> THEN map
  ELSE AddCommits(AddCommit(map, Head(labelCommits)), Tail(labelCommits))

partitionPackages(labelCommits) == AddCommits(<<>>, labelCommits)

\* Object.entries(packageCommits).map(...) appended to section
RECURSIVE RenderEntries(_, _)
RenderEntries(sec, entries) ==
  IF entries = <<>> THEN sec
  ELSE RenderEntries(
         sec \o << <<"-", " ">> \o Head(entries).key >>
             \o [ i \in 1..Len(Head(entries).lines) |->
                    <<" ", " ">> \o Head(entries).lines[i] ],
         Tail(entries))

\* the condition under which the hook builds a section
ShouldRenderMutNoSuppression(pkgCount, hasMonorepo) == pkgCount > 0

ShouldRender(pkgCount, hasMonorepo) == pkgCount > 0 /\ (pkgCount # 1 \/ ~hasMonorepo)

\* the hook's code after partitionPackages: <<>> (undefined) or <<section>>
RenderSection(packageCommits) ==
  LET pkgCount == Len(packageCommits)
      hasMonorepo == HasKey(packageCommits, MONOREPO)
      hasRepoCommits == hasMonorepo /\ Len(Lookup(packageCommits, MONOREPO)) > 0
  IN IF ShouldRender(pkgCount, hasMonorepo)
       THEN LET first == IF hasRepoCommits THEN Lookup(packageCommits, MONOREPO) ELSE <<>>
                rest == IF hasRepoCommits
                          THEN SelectSeq(packageCommits, LAMBDA e : e.key # MONOREPO)
                          ELSE packageCommits
            IN << RenderEntries(first, rest) >>
       ELSE <<>>

\* state of Promise.all over the per-commit promises
PromiseAllMutRace(cs) ==
  IF \E i \in 1..Len(cs) : cs[i] = "failed" THEN "rejected"
  ELSE IF cs = <<>> \/ \E i \in 1..Len(cs) : cs[i] = "ok" THEN "fulfilled"
  ELSE "pending"

PromiseAllMutSettled(cs) ==
  IF \A i \in 1..Len(cs) : cs[i] # "pending" THEN "fulfilled" ELSE "pending"

PromiseAll(cs) ==
  IF \E i \in 1..Len(cs) : cs[i] = "failed" THEN "rejected"
  ELSE IF \A i \in 1..Len(cs) : cs[i] = "ok" THEN "fulfilled"
  ELSE "pending"

\* the hook's continuation once Promise.all settled as `settled`;
\* cms, ws are the commits and write counts at that moment
AfterAwait(settled, cms, ws, failedCall) ==
  IF pc # "awaiting" \/ settled = "pending"
    THEN UNCHANGED << pc, reads, section, error >>
  ELSE IF settled = "rejected"
    THEN /\ pc' = "rejected"
         /\ error' = << failedCall >>
         /\ UNCHANGED << reads, section >>
  ELSE /\ reads' = << ws >>
       /\ section' = RenderSection(partitionPackages(cms))
       /\ pc' = "returned"
       /\ UNCHANGED error

\* the hook is called: issues one changedPackages call per commit, in list order
CL_Start ==
  /\ hook = "renderChangelogLine" /\ pc = "idle"
  /\ IF mode = "Workspace"
       THEN /\ calls' = [ i \in 1..Len(commits) |-> "pending" ]
            /\ IF PromiseAll(calls') = "fulfilled"
                 THEN /\ reads' = << writes >>
                      /\ section' = RenderSection(partitionPackages(commits))
                      /\ pc' = "returned"
                 ELSE /\ pc' = "awaiting"
                      /\ UNCHANGED << reads, section >>
       ELSE /\ pc' = "returned"
            /\ UNCHANGED << calls, reads, section >>
  /\ UNCHANGED << hook, mode, commits, completed, writes, error, pvVars, pubVars, mapVars >>

\* the git show of commit i printed its files: commit.packages is assigned
CL_GitOk ==
  /\ hook = "renderChangelogLine"
  /\ \E i \in 1..Len(calls) :
       /\ calls[i] = "pending"
       /\ calls' = [calls EXCEPT ![i] = "ok"]
       /\ completed' = Append(completed, i)
       /\ commits' = [commits EXCEPT
                        ![i].packages = << ParseChangedFiles(GitShow(commits[i].hash)) >>]
       /\ writes' = [writes EXCEPT ![i] = @ + 1]
       /\ AfterAwait(PromiseAll(calls'), commits', writes', i)
  /\ UNCHANGED << hook, mode, pvVars, pubVars, mapVars >>

\* the git show of commit i failed
CL_GitFail ==
  /\ hook = "renderChangelogLine"
  /\ \E i \in 1..Len(calls) :
       /\ calls[i] = "pending"
       /\ calls' = [calls EXCEPT ![i] = "failed"]
       /\ completed' = Append(completed, i)
       /\ AfterAwait(PromiseAll(calls'), commits, writes, i)
  /\ UNCHANGED << hook, mode, commits, writes, pvVars, pubVars, mapVars >>

(***************************************************************************)
(* publish                                                                 *)
(***************************************************************************)
\* values of the SEMVER argument
SemverBumps == { "major", "premajor", "minor", "preminor", "patch", "prepatch" }

LernaPublish(ver) ==
  << "npx", "lerna", "publish", "--yes", "--force-publish=*", ver, "-m", "'%v [skip ci]'" >>

NpmVersion(ver) == << "npm", "version", ver, "-m", "\"Bump version to: %s [skip ci]\"" >>

NpmPublish == << "npm", "publish" >>

GitPush == << "git", "push", "--follow-tags", "--set-upstream", "origin", "$branch" >>

\* the command the hook issues after `done` commands succeeded, <<>> when it returns
NextCommandMutPushFirst(done) ==
  IF mode = "Workspace"
    THEN IF done = 0 THEN << LernaPublish(version) >> ELSE <<>>
    ELSE CASE done = 0 -> << NpmVersion(version) >>
           [] done = 1 -> << GitPush >>
           [] done = 2 -> << NpmPublish >>
           [] OTHER    -> <<>>

NextCommand(done) ==
  IF mode = "Workspace"
    THEN IF done = 0 THEN << LernaPublish(version) >> ELSE <<>>
    ELSE CASE done = 0 -> << NpmVersion(version) >>
           [] done = 1 -> << NpmPublish >>
           [] done = 2 -> << GitPush >>
           [] OTHER    -> <<>>

\* the hook is called and issues its first command
PUB_Start ==
  /\ hook = "publish" /\ pc = "idle"
  /\ commands' = NextCommand(0)
  /\ outcomes' = << "running" >>
  /\ pc' = "awaiting"
  /\ UNCHANGED << hook, mode, version, pvVars, clVars, mapVars >>

\* the running command succeeded: the next one is issued, or the hook returns
PUB_CommandOk ==
  /\ hook = "publish" /\ pc = "awaiting"
  /\ LET settled == [outcomes EXCEPT ![Len(outcomes)] = "ok"]
         next == NextCommand(Len(commands))
     IN IF next = <<>>
          THEN /\ outcomes' = settled
               /\ pc' = "returned"
               /\ UNCHANGED commands
          ELSE /\ outcomes' = Append(settled, "running")
               /\ commands' = commands \o next
               /\ UNCHANGED pc
  /\ UNCHANGED << hook, mode, version, pvVars, clVars, mapVars >>

\* the running command failed: the hook rejects
PUB_CommandFail ==
  /\ hook = "publish" /\ pc = "awaiting"
  /\ outcomes' = [outcomes EXCEPT ![Len(outcomes)] = "failed"]
  /\ pc' = "rejected"
  /\ UNCHANGED << hook, mode, version, commands, pvVars, clVars, mapVars >>

(***************************************************************************)
(* Initial states and specification                                        *)
(***************************************************************************)
RootName == <<"r", "o", "o", "t">>

IdlePV ==
  /\ normalize = "identity"
  /\ marker = Ver(0, 0, 0)
  /\ subPackages = <<>>
  /\ manifest = [name |-> RootName, version |-> Ver(0, 0, 0)]

IdleCL == commits = <<>>

IdlePub == version = "patch"

IdleMap == changedFiles = <<>>

InitPV ==
  /\ hook = "getPreviousVersion"
  /\ mode \in { "Workspace", "Single", "None" }
  /\ normalize \in Normalizers
  /\ IF mode = "Workspace"
       THEN /\ marker \in MarkerPool
            /\ subPackages \in PackageLists(MaxPackages)
            /\ manifest = [name |-> RootName, version |-> Ver(0, 0, 0)]
     ELSE IF mode = "Single"
       THEN /\ marker = Ver(0, 0, 0)
            /\ subPackages = <<>>
            /\ manifest \in [name : { RootName }, version : Versions]
       ELSE /\ marker = Ver(0, 0, 0)
            /\ subPackages = <<>>
            /\ manifest = [name |-> RootName, version |-> Ver(0, 0, 0)]
  /\ IdleCL /\ IdlePub /\ IdleMap

InitCL ==
  /\ hook = "renderChangelogLine"
  /\ mode \in { "Workspace", "Single", "None" }
  /\ commits \in { l \in CommitLists(MaxCommits) : DistinctHashes(l) }
  /\ IdlePV /\ IdlePub /\ IdleMap

InitPub ==
  /\ hook = "publish"
  /\ mode \in { "Workspace", "Single", "None" }
  /\ version \in SemverBumps
  /\ IdlePV /\ IdleCL /\ IdleMap

InitMap ==
  /\ hook = "changedPackages"
  /\ mode = "Workspace"
  /\ changedFiles \in { Join(l, NEWLINE) : l \in PathLists(MaxFiles) }
  /\ IdlePV /\ IdleCL /\ IdlePub

Init ==
  /\ (InitPV \/ InitCL \/ InitPub \/ InitMap)
  /\ pc = "idle"
  /\ queries = <<>>
  /\ published = <<>>
  /\ previousVersion = <<>>
  /\ calls = <<>>
  /\ completed = <<>>
  /\ writes = [ i \in 1..Len(commits) |-> 0 ]
  /\ reads = <<>>
  /\ section = <<>>
  /\ error = <<>>
  /\ commands = <<>>
  /\ outcomes = <<>>
  /\ packages = <<>>

Next ==
  \/ PV_Start \/ PV_RegistryOk \/ PV_RegistryFail
  \/ CL_Start \/ CL_GitOk \/ CL_GitFail
  \/ PUB_Start \/ PUB_CommandOk \/ PUB_CommandFail
  \/ MAP_Start \/ MAP_GitOk \/ MAP_GitFail

Spec == Init /\ [][Next]_vars

(***************************************************************************)
(* Properties of getPreviousVersion                                        *)
(***************************************************************************)
\* semantic-version precedence as one number: major, minor, patch, then
\* "release above prerelease"
Precedence(x) ==
  ((x.major * (MaxPart + 1) + x.minor) * (MaxPart + 1) + x.patch) * 2
    + (IF x.pre THEN 0 ELSE 1)

\* sub-packages that are not private and have a version
Eligible == { i \in 1..Len(subPackages) :
                subPackages[i].version # <<>> /\ ~subPackages[i].private }

\* the eligible sub-packages of greatest version
Greatest == { i \in Eligible :
                \A j \in Eligible :
                  Precedence(subPackages[i].version[1]) >= Precedence(subPackages[j].version[1]) }

\* C1: in Workspace mode, when no sub-package is both public and versioned,
\* the hook returns normalize(marker.version), whatever the registry answers.
C1_NoReleasedReturnsBaseline ==
  (hook = "getPreviousVersion" /\ mode = "Workspace" /\ Eligible = {}
     /\ pc \in { "returned", "rejected" })
    => /\ pc = "returned"
       /\ previousVersion = << prefixRelease(normalize, marker) >>
       /\ queries = <<>>

\* C3: in Single mode the hook returns normalize(L) when it is strictly greater
\* than normalize(R) in semantic-version order, and normalize(R) otherwise.
C3_SingleReturnsGreater ==
  (hook = "getPreviousVersion" /\ mode = "Single" /\ pc = "returned")
    => LET local == prefixRelease(normalize, manifest.version)
           registry == prefixRelease(normalize, published[1])
       IN previousVersion =
            << IF Precedence(local) > Precedence(registry) THEN local ELSE registry >>

\* a tie in precedence between two different strings: the registry string is returned
C3_Witness ==
  /\ hook = "getPreviousVersion" /\ mode = "Single" /\ pc = "returned"
  /\ normalize = "identity"
  /\ manifest.version = [Ver(1, 1, 0) EXCEPT !.v = TRUE]
  /\ published = << Ver(1, 1, 0) >>
  /\ previousVersion = << Ver(1, 1, 0) >>

\* C4: in Workspace mode with an eligible sub-package, exactly one registry
\* query is issued, for the name of an eligible sub-package of greatest
\* version, and the result is the greater of normalize(marker.version) and the
\* normalized registry version, the registry winning a tie.
C4_WorkspaceQueriesReleased ==
  (hook = "getPreviousVersion" /\ mode = "Workspace" /\ Eligible # {} /\ pc # "idle")
    => /\ Len(queries) = 1
       /\ \E i \in Greatest : queries[1] = subPackages[i].name
       /\ pc = "returned" =>
            LET local == prefixRelease(normalize, marker)
                registry == prefixRelease(normalize, published[1])
            IN previousVersion =
                 << IF Precedence(local) > Precedence(registry) THEN local ELSE registry >>

(***************************************************************************)
(* Properties of changedPackages                                           *)
(***************************************************************************)
Segments(path) == Split(path, "/")

Qualifies(path) == Segments(path)[1] = PACKAGES /\ Len(Segments(path)) >= 3

Identifier(path) ==
  LET seg == Segments(path) IN
    IF Len(seg) >= 4 /\ seg[2] # <<>> /\ Head(seg[2]) = "@"
      THEN seg[2] \o <<"/">> \o seg[3]
      ELSE seg[2]

\* C5: changedPackages returns a duplicate-free collection holding exactly the
\* identifiers of the qualifying paths: segment2/segment3 for a scoped path of
\* at least 4 segments, segment2 otherwise; other paths contribute nothing.
C5_ChangedPackagesIdentifiers ==
  (hook = "changedPackages" /\ pc = "returned")
    => LET result == packages[1]
           paths == Range(Split(changedFiles, "\n"))
       IN /\ \A i, j \in 1..Len(result) : i # j => result[i] # result[j]
          /\ Range(result) = { Identifier(path) : path \in { q \in paths : Qualifies(q) } }

\* packages/@s/n/f, packages/a/f, packages/a/x/f gives [@s/n, a]
C5_Witness ==
  /\ hook = "changedPackages" /\ pc = "returned"
  /\ Len(Split(changedFiles, "\n")) = 3
  /\ packages = << << <<"@", "s", "/", "n">>, <<"a">> >> >>

(***************************************************************************)
(* Properties of renderChangelogLine                                       *)
(***************************************************************************)
\* the affected packages of commit i, straight from the repository
Affected(i) == ParseChangedFiles(GitShow(commits[i].hash))

CommitIdx == 1..Len(commits)

\* C2: two commits whose affected names are equal as sets get the same bucket
\* key and their lines land in the same bucket.
C2_SameSetSameBucket ==
  (hook = "renderChangelogLine" /\ mode = "Workspace" /\ pc = "returned")
    => \A i, j \in CommitIdx :
         Range(commits[i].packages[1]) = Range(commits[j].packages[1])
           => /\ PackagesKey(commits[i]) = PackagesKey(commits[j])
              /\ LET map == partitionPackages(commits) IN
                   \E b \in 1..Len(map) :
                     /\ lineRender(commits[i]) \in Range(map[b].lines)
                     /\ lineRender(commits[j]) \in Range(map[b].lines)

\* C6: the hook returns undefined exactly when the repository is not a
\* workspace, the commit list is empty, or every commit has an empty affected
\* set; otherwise it returns a list of lines.
C6_AbsentExactlyWhenNoPackages ==
  (hook = "renderChangelogLine" /\ pc = "returned")
    => (section = <<>>
          <=> \/ mode # "Workspace"
              \/ commits = <<>>
              \/ \A i \in CommitIdx : Affected(i) = <<>>)

\* a workspace with two commits outside packages/: no section
C6_Witness ==
  /\ hook = "renderChangelogLine" /\ mode = "Workspace" /\ pc = "returned"
  /\ Len(commits) = 2
  /\ \A i \in CommitIdx : Affected(i) = <<>>
  /\ section = <<>>

\* the layout, bucket by bucket
KeyOf(i) == PackagesKey(commits[i])

LinesOfKey(key) ==
  LET same == SelectSeq(commits, LAMBDA c : PackagesKey(c) = key) IN
    [ n \in 1..Len(same) |-> lineRender(same[n]) ]

Indented(lines) == [ n \in 1..Len(lines) |-> <<" ", " ">> \o lines[n] ]

RECURSIVE Blocks(_)
Blocks(i) ==
  IF i > Len(commits) THEN <<>>
  ELSE (IF KeyOf(i) # MONOREPO /\ \A j \in 1..(i - 1) : KeyOf(j) # KeyOf(i)
          THEN << <<"-", " ">> \o KeyOf(i) >> \o Indented(LinesOfKey(KeyOf(i)))
          ELSE <<>>) \o Blocks(i + 1)

Occurrences(lines, line) == Cardinality({ n \in 1..Len(lines) : lines[n] = line })

\* C7: a section is the lines of the commits without packages, unprefixed and
\* in input order, then per remaining bucket in order of first appearance a
\* header "- <key>" and the bucket's lines indented by two spaces in input
\* order; each commit's line appears once, so there are as many lines as
\* commits plus buckets other than monorepo.
C7_SectionLayout ==
  (hook = "renderChangelogLine" /\ pc = "returned" /\ section # <<>>)
    => /\ section[1] = LinesOfKey(MONOREPO) \o Blocks(1)
       /\ \A i \in CommitIdx :
            Occurrences(section[1], lineRender(commits[i]))
              + Occurrences(section[1], <<" ", " ">> \o lineRender(commits[i])) = 1
       /\ Len(section[1]) =
            Len(commits) + Cardinality({ KeyOf(i) : i \in CommitIdx } \ { MONOREPO })

\* commits 4, 3, 6: bucket of package a holds 4 and 6, commit 3 has no package
C7_Witness ==
  /\ hook = "renderChangelogLine" /\ pc = "returned"
  /\ [ i \in CommitIdx |-> commits[i].hash ] = << <<"4">>, <<"3">>, <<"6">> >>
  /\ section = << << <<"#", "3">>,
                     <<"-", " ", "BACKQUOTE", "a", "BACKQUOTE">>,
                     <<" ", " ", "#", "4">>,
                     <<" ", " ", "#", "6">> >> >>

\* the commits as they are once every annotation is written
Annotated == [ i \in CommitIdx |-> [commits[i] EXCEPT !.packages = << Affected(i) >>] ]

\* C8: every annotation is written at most once and holds the result for its
\* own commit's hash; when partitionPackages reads, every annotation has been
\* written exactly once; the section is that of the list in its original
\* order, whatever the completion order.
C8_JoinBarrier ==
  hook = "renderChangelogLine"
    => /\ \A i \in CommitIdx :
            /\ writes[i] <= 1
            /\ writes[i] = (IF calls # <<>> /\ calls[i] = "ok" THEN 1 ELSE 0)
            /\ writes[i] = 1 => commits[i].packages = << Affected(i) >>
            /\ writes[i] = 0 => commits[i].packages = <<>>
       /\ reads # <<>> => \A i \in CommitIdx : reads[1][i] = 1
       /\ (pc = "returned" /\ mode = "Workspace")
            => /\ reads # <<>>
               /\ section = RenderSection(partitionPackages(Annotated))

\* three calls completing in the order 3, 1, 2
C8_Witness ==
  /\ hook = "renderChangelogLine" /\ pc = "returned"
  /\ completed = << 3, 1, 2 >>
  /\ [ i \in CommitIdx |-> commits[i].hash ] = << <<"1">>, <<"2">>, <<"4">> >>
  /\ section # <<>>

\* C10: once the git show of any call failed, the hook is rejected with the
\* error of the first call that failed, partitionPackages has not run and no
\* section exists.
C10_FailureRejectsWithoutSection ==
  (hook = "renderChangelogLine" /\ \E i \in 1..Len(calls) : calls[i] = "failed")
    => /\ pc = "rejected"
       /\ error # <<>>
       /\ calls[error[1]] = "failed"
       /\ \A n \in 1..Len(completed) :
            calls[completed[n]] = "failed"
              => \E m \in 1..n : completed[m] = error[1]
       /\ reads = <<>>
       /\ section = <<>>

\* call 2 fails first, then call 1 succeeds and call 3 fails
C10_Witness ==
  /\ hook = "renderChangelogLine" /\ pc = "rejected"
  /\ completed = << 2, 1, 3 >>
  /\ calls = << "ok", "failed", "failed" >>
  /\ error = << 2 >>

(***************************************************************************)
(* Properties of publish                                                   *)
(***************************************************************************)
\* the commands of a complete run
Plan ==
  IF mode = "Workspace"
    THEN << << "npx", "lerna", "publish", "--yes", "--force-publish=*", version,
               "-m", "'%v [skip ci]'" >> >>
    ELSE << << "npm", "version", version, "-m", "\"Bump version to: %s [skip ci]\"" >>,
            << "npm", "publish" >>,
            << "git", "push", "--follow-tags", "--set-upstream", "origin", "$branch" >> >>

\* C9: Workspace mode issues the one lerna publish command; otherwise npm
\* version, npm publish, git push are issued in this order, each after the
\* previous one succeeded; after a failure nothing more is issued and the
\* hook rejects; the hook returns only when every command succeeded.
C9_PublishOrder ==
  hook = "publish"
    => /\ Len(commands) <= Len(Plan)
       /\ commands = SubSeq(Plan, 1, Len(commands))
       /\ Len(outcomes) = Len(commands)
       /\ \A k \in 1..(Len(outcomes) - 1) : outcomes[k] = "ok"
       /\ pc = "idle" <=> commands = <<>>
       /\ pc = "awaiting" => outcomes[Len(outcomes)] = "running"
       /\ pc = "rejected" => outcomes[Len(outcomes)] = "failed"
       /\ pc = "returned" => (commands = Plan /\ outcomes[Len(outcomes)] = "ok")

\* npm version succeeded, npm publish failed: git push is never issued
C9_Witness ==
  /\ hook = "publish" /\ mode = "Single" /\ pc = "rejected"
  /\ Len(commands) = 2
  /\ commands[2] = << "npm", "publish" >>
  /\ outcomes = << "ok", "failed" >>

====
